---- MODULE Spec2Model ----
(***************************************************************************)
(* Model of the ENV III unit driver (src/unit_env_iii.c, the version with  *)
(* the single-shot read path, lines 179-477): the static sensor session    *)
(* _dev, the public operations unit_enviii_*, the helpers shuffle, crc8    *)
(* and is_measuring, the microsecond clock esp_timer_get_time() and the    *)
(* I2C transport the driver calls into.                                    *)
(***************************************************************************)
EXTENDS Integers, Naturals, Sequences, FiniteSets, TLC

\* ------------------------------------------------------------------------
\* Bounds of the model
\* ------------------------------------------------------------------------

\* The clock is followed up to this many microseconds.
MaxTime == 30000

\* The clock advances in coarse steps of this many microseconds ...
StepUs == 7500

\* ... and is sampled at the multiples of StepUs and up to this many
\* microseconds after them, so that elapsed times one below and one above a
\* duration occur.
FineSteps == 1

\* ------------------------------------------------------------------------
\* Program constants
\* ------------------------------------------------------------------------

SHT3X_FETCH_DATA_CMD == 57344            \* 0xE000
SHT3X_MEAS_DURATION_REP_HIGH == 15
SHT3X_MEAS_DURATION_REP_MEDIUM == 6
SHT3X_MEAS_DURATION_REP_LOW == 4
G_POLYNOM == 49                          \* 0x31

\* sht3x_repeat_t and sht3x_mode_t of the sensor library
SHT3X_HIGH == 0
SHT3X_MEDIUM == 1
SHT3X_LOW == 2
SHT3X_SINGLE_SHOT == 0
SHT3X_PERIODIC_1MPS == 2

REPEATABILITY_MODE == SHT3X_HIGH

\* esp_err_t values
ESP_OK == 0
ESP_FAIL == 0 - 1
ESP_ERR_INVALID_STATE == 259             \* 0x103
ESP_ERR_TIMEOUT == 263                   \* 0x107
ESP_ERR_INVALID_CRC == 265               \* 0x109

\* sizeof( sht3x_raw_data_t ): uint8_t[6]
RAW_DATA_SIZE == 6

\* crc8 is called on the two data bytes of each word of the response
CRC_DATA_LEN == 2

\* ------------------------------------------------------------------------
\* Fixed-width arithmetic
\* ------------------------------------------------------------------------

RECURSIVE BitXor(_, _)
BitXor(a, b) ==
    IF a = 0 THEN b
    ELSE IF b = 0 THEN a
    ELSE (((a % 2) + (b % 2)) % 2) + 2 * BitXor(a \div 2, b \div 2)

RECURSIVE BitOr(_, _)
BitOr(a, b) ==
    IF a = 0 THEN b
    ELSE IF b = 0 THEN a
    ELSE (IF a % 2 = 1 \/ b % 2 = 1 THEN 1 ELSE 0) + 2 * BitOr(a \div 2, b \div 2)

U8(x) == x % 256

\* Faulty variant of U16: a type of 13 bits.
U16_13bit(x) == x % 8192

U16(x) == x % 65536

\* ------------------------------------------------------------------------
\* Helpers of the driver
\* ------------------------------------------------------------------------

\* measurement durations in us, as uint16_t
SHT3X_MEAS_DURATION_US ==
    << U16(SHT3X_MEAS_DURATION_REP_HIGH * 1000),
       U16(SHT3X_MEAS_DURATION_REP_MEDIUM * 1000),
       U16(SHT3X_MEAS_DURATION_REP_LOW * 1000) >>

\* (val >> 8) | (val << 8), truncated to uint16_t
shuffle(val) == U16(BitOr(val \div 256, val * 256))

\* one pass of the inner loop of crc8
\* Faulty variant: the register is not cut to 8 bits after the shift.
crc8_shift_wide(crc) ==
    IF (crc \div 128) % 2 = 1 THEN BitXor(crc * 2, G_POLYNOM) ELSE crc * 2

\* xor = crc & 0x80 is bit 7 of crc; crc << 1 is stored into a uint8_t
crc8_shift(crc) ==
    IF (crc \div 128) % 2 = 1 THEN BitXor(U8(crc * 2), G_POLYNOM) ELSE U8(crc * 2)

RECURSIVE crc8_bits(_, _)
crc8_bits(crc, n) == IF n = 0 THEN crc ELSE crc8_bits(crc8_shift(crc), n - 1)

RECURSIVE crc8_bytes(_, _, _, _)
crc8_bytes(data, i, len, crc) ==
    IF i > len THEN crc
    ELSE crc8_bytes(data, i + 1, len, crc8_bits(BitXor(crc, data[i]), 8))

\* crc8( data, len ): data is 1-indexed here
crc8(data, len) == crc8_bytes(data, 1, len, 255)

\* ------------------------------------------------------------------------
\* State
\* ------------------------------------------------------------------------

VARIABLES
    dev,        \* static sht3x_t _dev: the fields the driver reads and writes
    now,        \* esp_timer_get_time(), microseconds
    halted,     \* abort() was called by ESP_ERROR_CHECK
    op,         \* the last public operation called
    ret,        \* <<its esp_err_t>>, or <<>> when it did not return
    logged,     \* the ESP_LOGE message of the last operation, "" when none
    io,         \* the transport transactions issued by the last operation
    raw,        \* the sht3x_raw_data_t read by the last operation, <<>> when none
    out,        \* what the last operation wrote through its output pointers
    pre,        \* _dev, the clock and the history when the last operation was called
    hist,       \* history of the calls made so far (not program state)
    crc_data,   \* argument of the crc8 call under test
    crc_out     \* <<its result>>, or <<>> before the call

vars == << dev, now, halted, op, ret, logged, io, raw, out, pre, hist,
           crc_data, crc_out >>

\* memset( &_dev, 0, sizeof( sht3x_t ) ), also the value of the static _dev at start
dev_zero ==
    [ mode |-> 0, repeatability |-> 0, meas_start_time |-> 0,
      meas_started |-> FALSE, meas_first |-> FALSE ]

\* Faulty variant of memset_dev: the session is left as it was.
memset_dev_skipped(d) == d

\* unit_enviii_init clears the whole session first
memset_dev(d) == dev_zero

\* Results the transport reports for a failed transaction
TransportErrs == { ESP_FAIL, ESP_ERR_TIMEOUT }
TransportResults == { ESP_OK } \cup TransportErrs

\* Data words and checksum bytes the sensor's response is drawn from:
\* crc8(<<0,0>>) = 129 (0x81), crc8(<<190,239>>) = 146 (0x92)
DataWords == { << 0, 0 >>, << 190, 239 >> }
CrcBytes == { 129, 146 }
RawResponses ==
    { << t[1], t[2], tc, h[1], h[2], hc >> :
        t \in DataWords, tc \in CrcBytes, h \in DataWords, hc \in CrcBytes }

MSG_NOT_STARTED == "Measurement is not started"
MSG_STILL_RUNNING == "Measurement is still running"
MSG_CRC_TEMPERATURE == "CRC check for temperature data failed"
MSG_CRC_HUMIDITY == "CRC check for humidity data failed"

no_out == [ duration |-> << >>, temperature |-> << >>, humidity |-> << >> ]

hist_zero ==
    [ start |-> 0 - 1,       \* clock at the most recent successful start command
      init_since |-> FALSE,  \* unit_enviii_init was called since that start
      read_since |-> FALSE,  \* a fetch read the sensor since that start
      prior |-> 0 - 1,       \* clock at the start still pending when that start
                             \* was issued (not read, no init), -1 when none
      fetch |-> << >> ]      \* <<message, result>> of the last fetch since the
                             \* last start call, << >> when none

\* ------------------------------------------------------------------------
\* The sensor library the driver calls (sht3x.h)
\* ------------------------------------------------------------------------

\* ticks to wait for a measurement of the given repeatability
sht3x_get_measurement_duration(repeat) ==
    << SHT3X_MEAS_DURATION_REP_HIGH,
       SHT3X_MEAS_DURATION_REP_MEDIUM,
       SHT3X_MEAS_DURATION_REP_LOW >>[repeat + 1]

\* issues the start command; on success records the start of the measurement
sht3x_start_measurement(d, mode, repeat, cmd_err, t) ==
    IF cmd_err # ESP_OK
    THEN [ dev |-> d, err |-> cmd_err ]
    ELSE [ dev |-> [ d EXCEPT !.mode = mode, !.repeatability = repeat,
                              !.meas_start_time = t,
                              !.meas_started = TRUE, !.meas_first = TRUE ],
           err |-> ESP_OK ]

\* temperature and humidity in hundredths, from the raw words
sht3x_compute_values(r) ==
    [ temperature |-> ((17500 * (r[1] * 256 + r[2])) \div 65535) - 4500,
      humidity |-> (10000 * (r[4] * 256 + r[5])) \div 65535,
      err |-> ESP_OK ]

\* ------------------------------------------------------------------------
\* The read path of the driver
\* ------------------------------------------------------------------------

\* Faulty variant of elapsed_us: the start time is left out.
elapsed_us_since_boot(d, t) == t

\* esp_timer_get_time() - dev->meas_start_time as uint64_t: the clock never
\* runs backwards, so the difference does not wrap
elapsed_us(d, t) == t - d.meas_start_time

\* Faulty variants of is_measuring: the tick table instead of the microsecond
\* table, the comparison inverted, the comparison not strict.
is_measuring_ms(d, t) ==
    IF ~d.meas_started \/ ~d.meas_first
    THEN FALSE
    ELSE elapsed_us(d, t)
            < sht3x_get_measurement_duration(d.repeatability)

is_measuring_gt(d, t) ==
    IF ~d.meas_started \/ ~d.meas_first
    THEN FALSE
    ELSE elapsed_us(d, t)
            > SHT3X_MEAS_DURATION_US[d.repeatability + 1]

is_measuring_le(d, t) ==
    IF ~d.meas_started \/ ~d.meas_first
    THEN FALSE
    ELSE elapsed_us(d, t)
            <= SHT3X_MEAS_DURATION_US[d.repeatability + 1]

is_measuring(d, t) ==
    IF ~d.meas_started \/ ~d.meas_first
    THEN FALSE
    ELSE elapsed_us(d, t)
            < SHT3X_MEAS_DURATION_US[d.repeatability + 1]

\* Faulty variants of get_guard: the first guard missing, a result of its own
\* for the second guard, a second guard that does not look at the clock.
get_guard_no_clock(d, t) ==
    IF ~d.meas_started
    THEN [ err |-> ESP_ERR_INVALID_STATE, msg |-> MSG_NOT_STARTED ]
    ELSE IF d.meas_first
    THEN [ err |-> ESP_ERR_INVALID_STATE, msg |-> MSG_STILL_RUNNING ]
    ELSE [ err |-> ESP_OK, msg |-> "" ]

get_guard_no_started(d, t) ==
    IF is_measuring(d, t)
    THEN [ err |-> ESP_ERR_INVALID_STATE, msg |-> MSG_STILL_RUNNING ]
    ELSE [ err |-> ESP_OK, msg |-> "" ]

get_guard_codes(d, t) ==
    IF ~d.meas_started
    THEN [ err |-> ESP_ERR_INVALID_STATE, msg |-> MSG_NOT_STARTED ]
    ELSE IF is_measuring(d, t)
    THEN [ err |-> ESP_ERR_TIMEOUT, msg |-> MSG_STILL_RUNNING ]
    ELSE [ err |-> ESP_OK, msg |-> "" ]

\* the two guards at the head of unit_enviii_temp_humidity_get
get_guard(d, t) ==
    IF ~d.meas_started
    THEN [ err |-> ESP_ERR_INVALID_STATE, msg |-> MSG_NOT_STARTED ]
    ELSE IF is_measuring(d, t)
    THEN [ err |-> ESP_ERR_INVALID_STATE, msg |-> MSG_STILL_RUNNING ]
    ELSE [ err |-> ESP_OK, msg |-> "" ]

\* Faulty variants of get_reset_flags: the mode is not looked at, one of the
\* two flags is left alone.
get_reset_flags_any_mode(d) ==
    [ d EXCEPT !.meas_first = FALSE, !.meas_started = FALSE ]

get_reset_flags_keep_started(d) == [ d EXCEPT !.meas_first = FALSE ]

get_reset_flags_keep_first(d) ==
    IF d.mode = SHT3X_SINGLE_SHOT THEN [ d EXCEPT !.meas_started = FALSE ] ELSE d

\* the flags once the read of the raw data has returned
get_reset_flags(d) ==
    IF d.mode = SHT3X_SINGLE_SHOT
    THEN [ d EXCEPT !.meas_first = FALSE, !.meas_started = FALSE ]
    ELSE [ d EXCEPT !.meas_first = FALSE ]

\* Faulty variant of get_check_crc: the humidity word is checked first.
get_check_crc_humidity_first(r) ==
    IF crc8(<< r[4], r[5] >>, CRC_DATA_LEN) # r[6]
    THEN [ err |-> ESP_ERR_INVALID_CRC, msg |-> MSG_CRC_HUMIDITY ]
    ELSE IF crc8(<< r[1], r[2] >>, CRC_DATA_LEN) # r[3]
    THEN [ err |-> ESP_ERR_INVALID_CRC, msg |-> MSG_CRC_TEMPERATURE ]
    ELSE [ err |-> ESP_OK, msg |-> "" ]

\* the two CRC checks of the raw data
get_check_crc(r) ==
    IF crc8(<< r[1], r[2] >>, CRC_DATA_LEN) # r[3]
    THEN [ err |-> ESP_ERR_INVALID_CRC, msg |-> MSG_CRC_TEMPERATURE ]
    ELSE IF crc8(<< r[4], r[5] >>, CRC_DATA_LEN) # r[6]
    THEN [ err |-> ESP_ERR_INVALID_CRC, msg |-> MSG_CRC_HUMIDITY ]
    ELSE [ err |-> ESP_OK, msg |-> "" ]

\* Faulty variant of CHECK: every failure is reported as ESP_FAIL.
CHECK_as_fail(x) == [ returns |-> x # ESP_OK, err |-> IF x # ESP_OK THEN ESP_FAIL ELSE x ]

\* CHECK(x): return x from the calling function when it is not ESP_OK
CHECK(x) == [ returns |-> x # ESP_OK, err |-> x ]

\* the i2c_dev_read call of the fetch: command, its size as passed, response size
get_read(read_err) ==
    [ kind |-> "i2c_dev_read", cmd |-> shuffle(SHT3X_FETCH_DATA_CMD),
      out_size |-> 1, in_size |-> RAW_DATA_SIZE, err |-> read_err ]

\* Faulty variant of duration_get: the duration of another repeatability.
duration_get_low(d) ==
    [ dev |-> d, duration |-> U8(sht3x_get_measurement_duration(SHT3X_LOW)),
      err |-> ESP_OK ]

\* unit_enviii_duration_get: the value written and the result
duration_get(d) ==
    [ dev |-> d,
      duration |-> U8(sht3x_get_measurement_duration(REPEATABILITY_MODE)),
      err |-> ESP_OK ]

\* ------------------------------------------------------------------------
\* Initial state and operations
\* ------------------------------------------------------------------------

Init ==
    /\ dev = dev_zero
    /\ now = 0
    /\ halted = FALSE
    /\ op = "none"
    /\ ret = << >>
    /\ logged = ""
    /\ io = << >>
    /\ raw = << >>
    /\ out = no_out
    /\ pre = [ dev |-> dev_zero, now |-> 0, hist |-> hist_zero ]
    /\ hist = hist_zero
    /\ crc_data = << >>
    /\ crc_out = << >>

called == [ dev |-> dev, now |-> now, hist |-> hist ]

\* The clock moves on between calls.
Tick(d) ==
    /\ now + d <= MaxTime
    /\ (now + d) % StepUs <= FineSteps
    /\ now' = now + d
    /\ UNCHANGED << dev, halted, op, ret, logged, io, raw, out, pre, hist,
                    crc_data, crc_out >>

\* desc_err, init_err: what sht3x_init_desc and sht3x_init return
unit_enviii_init(desc_err, init_err) ==
    /\ ~halted
    /\ op' = "init"
    /\ pre' = called
    /\ dev' = memset_dev(dev)
    /\ logged' = ""
    /\ raw' = << >>
    /\ hist' = [ hist EXCEPT !.init_since = TRUE ]
    /\ IF desc_err # ESP_OK
       THEN /\ halted' = TRUE
            /\ ret' = << >>
            /\ io' = << [ kind |-> "sht3x_init_desc", err |-> desc_err ] >>
            /\ out' = no_out
       ELSE IF init_err # ESP_OK
       THEN /\ halted' = TRUE
            /\ ret' = << >>
            /\ io' = << [ kind |-> "sht3x_init_desc", err |-> desc_err ],
                        [ kind |-> "sht3x_init", err |-> init_err ] >>
            /\ out' = no_out
       ELSE LET r == duration_get(memset_dev(dev)) IN
            /\ halted' = FALSE
            /\ ret' = << r.err >>
            /\ io' = << [ kind |-> "sht3x_init_desc", err |-> desc_err ],
                        [ kind |-> "sht3x_init", err |-> init_err ] >>
            /\ out' = [ no_out EXCEPT !.duration = << r.duration >> ]
    /\ UNCHANGED << now, crc_data, crc_out >>

\* cmd_err: what sending the start command returns
unit_enviii_temp_humidity_measure(cmd_err) ==
    /\ ~halted
    /\ LET r == sht3x_start_measurement(dev, SHT3X_SINGLE_SHOT,
                                        REPEATABILITY_MODE, cmd_err, now) IN
       /\ dev' = r.dev
       /\ ret' = << r.err >>
       /\ io' = << [ kind |-> "sht3x_start_measurement", err |-> cmd_err ] >>
       /\ hist' = IF r.err = ESP_OK
                  THEN [ hist EXCEPT !.start = now, !.init_since = FALSE,
                                     !.read_since = FALSE, !.fetch = << >>,
                                     !.prior = IF hist.start >= 0
                                                  /\ ~hist.init_since
                                                  /\ ~hist.read_since
                                               THEN hist.start ELSE 0 - 1 ]
                  ELSE [ hist EXCEPT !.fetch = << >> ]
    /\ op' = "measure"
    /\ pre' = called
    /\ logged' = ""
    /\ raw' = << >>
    /\ out' = no_out
    /\ UNCHANGED << now, halted, crc_data, crc_out >>

unit_enviii_duration_get ==
    /\ ~halted
    /\ LET r == duration_get(dev) IN
       /\ dev' = r.dev
       /\ ret' = << r.err >>
       /\ out' = [ no_out EXCEPT !.duration = << r.duration >> ]
    /\ op' = "duration_get"
    /\ pre' = called
    /\ logged' = ""
    /\ io' = << >>
    /\ raw' = << >>
    /\ UNCHANGED << now, halted, hist, crc_data, crc_out >>

\* The transport decides what i2c_dev_read returns (read_err) and the bytes
\* it reads (raw_in); it is called only when both guards pass.
unit_enviii_temp_humidity_get ==
    /\ ~halted
    /\ op' = "get"
    /\ pre' = called
    /\ LET g == get_guard(dev, now)
       IN  IF g.err # ESP_OK
           THEN /\ ret' = << g.err >>
                /\ logged' = g.msg
                /\ io' = << >>
                /\ UNCHANGED dev
                /\ raw' = << >>
                /\ out' = no_out
           ELSE \E read_err \in TransportResults :
                IF CHECK(read_err).returns
                THEN /\ ret' = << CHECK(read_err).err >>
                     /\ logged' = ""
                     /\ io' = << get_read(read_err) >>
                     /\ UNCHANGED dev
                     /\ raw' = << >>
                     /\ out' = no_out
                ELSE \E raw_in \in RawResponses :
                     \E c \in { get_check_crc(raw_in) },
                        v \in { sht3x_compute_values(raw_in) } :
                         /\ io' = << get_read(read_err) >>
                         /\ raw' = raw_in
                         /\ dev' = get_reset_flags(dev)
                         /\ ret' = << IF c.err # ESP_OK THEN c.err ELSE v.err >>
                         /\ logged' = c.msg
                         /\ out' = IF c.err # ESP_OK
                                   THEN no_out
                                   ELSE [ no_out EXCEPT
                                            !.temperature = << v.temperature >>,
                                            !.humidity = << v.humidity >> ]
    /\ hist' = [ hist EXCEPT
                   !.read_since = @ \/ (io' # << >> /\ io'[1].err = ESP_OK),
                   !.fetch = << logged', ret'[1] >> ]
    /\ UNCHANGED << now, halted, crc_data, crc_out >>

\* Faulty variant of qmp6988_get: the sensor is read and the read is refused.
qmp6988_get_reads(d) ==
    [ dev |-> d, io |-> << [ kind |-> "i2c_dev_read", err |-> ESP_FAIL ] >>,
      err |-> ESP_FAIL ]

\* _unit_enviii_qmp6988_get returns ESP_OK and touches neither argument
qmp6988_get(d) == [ dev |-> d, io |-> << >>, err |-> ESP_OK ]

unit_enviii_pressure_get ==
    /\ ~halted
    /\ op' = "pressure_get"
    /\ pre' = called
    /\ LET r == qmp6988_get(dev) IN
       /\ dev' = r.dev
       /\ ret' = << r.err >>
       /\ io' = r.io
    /\ logged' = ""
    /\ raw' = << >>
    /\ out' = no_out
    /\ UNCHANGED << now, halted, hist, crc_data, crc_out >>

unit_enviii_altitude_get ==
    /\ ~halted
    /\ op' = "altitude_get"
    /\ pre' = called
    /\ ret' = << ESP_OK >>
    /\ logged' = ""
    /\ io' = << >>
    /\ raw' = << >>
    /\ out' = no_out
    /\ UNCHANGED << dev, now, halted, hist, crc_data, crc_out >>

Next ==
    \/ \E d \in { 1, StepUs - 1, StepUs } : Tick(d)
    \/ \E e1 \in TransportResults, e2 \in TransportResults : unit_enviii_init(e1, e2)
    \/ \E e \in TransportResults : unit_enviii_temp_humidity_measure(e)
    \/ unit_enviii_duration_get
    \/ unit_enviii_temp_humidity_get
    \/ unit_enviii_pressure_get
    \/ unit_enviii_altitude_get

Spec == Init /\ [][Next]_vars

\* ------------------------------------------------------------------------
\* The earlier version of the driver (lines 1-178): unit_enviii_init starts
\* periodic measurements and the fetch is the sensor library's
\* ------------------------------------------------------------------------

\* err |= x on esp_err_t: ESP_FAIL has all bits set
err_or(a, b) == IF a < 0 \/ b < 0 THEN ESP_FAIL ELSE BitOr(a, b)

\* desc_err, init_err, cmd_err: what sht3x_init_desc, sht3x_init and the start
\* command return; every call is made, whatever the calls before it returned
unit_enviii_init_earlier(desc_err, init_err, cmd_err) ==
    /\ ~halted
    /\ op' = "init"
    /\ pre' = called
    /\ LET s == sht3x_start_measurement(memset_dev(dev), SHT3X_PERIODIC_1MPS,
                                        REPEATABILITY_MODE, cmd_err, now)
           r == duration_get(s.dev)
       IN  /\ dev' = r.dev
           /\ ret' = << err_or(err_or(err_or(ESP_OK, desc_err), init_err), s.err) >>
           /\ out' = [ no_out EXCEPT !.duration = << r.duration >> ]
           /\ hist' = IF s.err = ESP_OK
                      THEN [ hist EXCEPT !.start = now, !.init_since = FALSE,
                                         !.read_since = FALSE, !.fetch = << >>,
                                         !.prior = 0 - 1 ]
                      ELSE [ hist EXCEPT !.init_since = TRUE, !.fetch = << >> ]
    /\ io' = << [ kind |-> "sht3x_init_desc", err |-> desc_err ],
                [ kind |-> "sht3x_init", err |-> init_err ],
                [ kind |-> "sht3x_start_measurement", err |-> cmd_err ] >>
    /\ logged' = ""
    /\ raw' = << >>
    /\ UNCHANGED << now, halted, crc_data, crc_out >>

\* sht3x_get_results of the sensor library: the fetch of the spec, which is
\* the read path above
sht3x_get_results == unit_enviii_temp_humidity_get

unit_enviii_temp_humidity_get_earlier == sht3x_get_results

NextPeriodic ==
    \/ \E d \in { 1, StepUs - 1, StepUs } : Tick(d)
    \/ \E e1 \in TransportResults, e2 \in TransportResults, e3 \in TransportResults :
          unit_enviii_init_earlier(e1, e2, e3)
    \/ unit_enviii_duration_get
    \/ unit_enviii_temp_humidity_get_earlier
    \/ unit_enviii_pressure_get
    \/ unit_enviii_altitude_get

SpecPeriodic == Init /\ [][NextPeriodic]_vars

\* ------------------------------------------------------------------------
\* crc8 on its own: every byte sequence of up to CRC_DATA_LEN bytes
\* ------------------------------------------------------------------------

Bytes == 0 .. 255

ByteSeqs == UNION { [ 1 .. n -> Bytes ] : n \in 0 .. CRC_DATA_LEN }

InitCrc ==
    /\ dev = dev_zero
    /\ now = 0
    /\ halted = FALSE
    /\ op = "none"
    /\ ret = << >>
    /\ logged = ""
    /\ io = << >>
    /\ raw = << >>
    /\ out = no_out
    /\ pre = [ dev |-> dev_zero, now |-> 0, hist |-> hist_zero ]
    /\ hist = hist_zero
    /\ crc_data \in ByteSeqs
    /\ crc_out = << >>

crc8_call ==
    /\ crc_out = << >>
    /\ crc_out' = << crc8(crc_data, Len(crc_data)) >>
    /\ UNCHANGED << dev, now, halted, op, ret, logged, io, raw, out, pre, hist,
                    crc_data >>

NextCrc == crc8_call

SpecCrc == InitCrc /\ [][NextCrc]_vars

\* ------------------------------------------------------------------------
\* Vocabulary of the properties
\* ------------------------------------------------------------------------

\* The last operation was a fetch; pre is the state it was called in.
Fetched == op = "get"

\* A start command was issued to the sensor before the call.
StartedBefore == pre.hist.start >= 0

\* Microseconds between the most recent start command and the call.
ElapsedAtCall == pre.now - pre.hist.start

\* Duration, in microseconds, of a measurement of the session's repeatability.
DurationUsAtCall ==
    1000 * ( CASE pre.dev.repeatability = SHT3X_HIGH -> SHT3X_MEAS_DURATION_REP_HIGH
               [] pre.dev.repeatability = SHT3X_MEDIUM -> SHT3X_MEAS_DURATION_REP_MEDIUM
               [] pre.dev.repeatability = SHT3X_LOW -> SHT3X_MEAS_DURATION_REP_LOW )

\* The fetch issued its read and the transport delivered a response.
ReadReturned == io # << >> /\ io[1].kind = "i2c_dev_read" /\ io[1].err = ESP_OK

NotStarted == ret = << ESP_ERR_INVALID_STATE >> /\ logged = MSG_NOT_STARTED
StillMeasuring == ret = << ESP_ERR_INVALID_STATE >> /\ logged = MSG_STILL_RUNNING
InvalidCrcTemperature == ret = << ESP_ERR_INVALID_CRC >> /\ logged = MSG_CRC_TEMPERATURE
InvalidCrcHumidity == ret = << ESP_ERR_INVALID_CRC >> /\ logged = MSG_CRC_HUMIDITY
Succeeded == ret = << ESP_OK >>

\* Reference CRC-8: the remainder of the message polynomial, shifted by 8 bits
\* and with the initial value 0xFF added to its first byte, on division by
\* x^8 + x^5 + x^4 + 1 over GF(2).
RECURSIVE PolyMod(_, _)
PolyMod(v, k) ==
    IF k < 8 THEN v
    ELSE PolyMod(IF (v \div (2 ^ k)) % 2 = 1
                 THEN BitXor(v, (256 + G_POLYNOM) * (2 ^ (k - 8)))
                 ELSE v,
                 k - 1)

RECURSIVE BigEndian(_, _)
BigEndian(data, n) ==
    IF n = 0 THEN 0 ELSE 256 * BigEndian(data, n - 1) + data[n]

RefCrc8(data) ==
    PolyMod(BitXor(256 * BigEndian(data, Len(data)), 255 * (2 ^ (8 * Len(data)))),
            8 * Len(data) + 7)

TemperatureCrcMatches == RefCrc8(<< raw[1], raw[2] >>) = raw[3]
HumidityCrcMatches == RefCrc8(<< raw[4], raw[5] >>) = raw[6]

\* ------------------------------------------------------------------------
\* Properties
\* ------------------------------------------------------------------------

\* C1: a fetch returns success only if meas_started was true when it was
\* called and the time since the most recent start command issued to the
\* sensor is at least the duration of the session's repeatability.
C1_SuccessOnlyWhenStartedAndElapsed ==
    (Fetched /\ Succeeded) =>
        /\ pre.dev.meas_started
        /\ StartedBefore
        /\ ElapsedAtCall >= DurationUsAtCall

C1_Witness ==
    /\ Fetched /\ Succeeded
    /\ pre.dev.meas_started
    /\ pre.hist.start > 0
    /\ ElapsedAtCall > DurationUsAtCall

\* C2: a fetch called after unit_enviii_init, with no start command issued
\* since, fails as "not started" without reaching the transport, whatever
\* the clock shows.
C2_FetchAfterInitNotStarted ==
    (Fetched /\ pre.hist.init_since) => (NotStarted /\ io = << >>)

C2_Witness ==
    /\ Fetched /\ pre.hist.init_since
    /\ StartedBefore /\ ElapsedAtCall >= DurationUsAtCall
    /\ NotStarted

\* C3: a fetch called after a start command (and no init since) when less
\* than the duration has elapsed since that start fails as "still running".
C3_EarlyFetchStillMeasuring ==
    (Fetched /\ StartedBefore /\ ~pre.hist.init_since
        /\ ElapsedAtCall < DurationUsAtCall)
    => (StillMeasuring /\ io = << >>)

C3_Witness ==
    /\ Fetched /\ StartedBefore /\ ~pre.hist.init_since
    /\ ElapsedAtCall = DurationUsAtCall - 1
    /\ StillMeasuring

\* C4: once the caller has waited the duration that unit_enviii_init and
\* unit_enviii_duration_get return (milliseconds) after the start command,
\* a fetch is not rejected as "still running", also when exactly the duration
\* has elapsed; the first such fetch reaches the transport, and succeeds when
\* the read works and both CRCs are valid.
C4_FetchAfterWaitAccepted ==
    (Fetched /\ StartedBefore
        /\ ElapsedAtCall >= 1000 * duration_get(pre.dev).duration)
    => /\ ~StillMeasuring
       /\ (~pre.hist.init_since /\ ~pre.hist.read_since) =>
            /\ io # << >>
            /\ (ReadReturned /\ TemperatureCrcMatches /\ HumidityCrcMatches)
                  => (Succeeded /\ out.temperature # << >> /\ out.humidity # << >>)

C4_Witness ==
    /\ Fetched /\ StartedBefore
    /\ ~pre.hist.init_since /\ ~pre.hist.read_since
    /\ ElapsedAtCall = 1000 * duration_get(pre.dev).duration
    /\ ReadReturned /\ Succeeded

\* C5: in single-shot mode, a fetch that follows a successful fetch with no
\* start command between them fails as "not started"; a successful fetch
\* leaves meas_started false, and meas_started is true only while a start
\* command is pending (no read and no init since it).
C5_SecondFetchNotStarted ==
    /\ (Fetched /\ pre.dev.mode = SHT3X_SINGLE_SHOT
           /\ pre.hist.fetch = << "", ESP_OK >>)
          => (NotStarted /\ io = << >>)
    /\ (Fetched /\ pre.dev.mode = SHT3X_SINGLE_SHOT /\ Succeeded)
          => ~dev.meas_started
    /\ dev.meas_started =>
          (hist.start >= 0 /\ ~hist.init_since /\ ~hist.read_since)

C5_Witness ==
    /\ Fetched /\ pre.hist.fetch = << "", ESP_OK >>
    /\ ~pre.hist.init_since
    /\ NotStarted

\* C6 as stated: a fetch that fails with an invalid CRC leaves meas_started
\* and meas_first as they were before the call.
C6_CrcFailureKeepsFlags ==
    (Fetched /\ (InvalidCrcTemperature \/ InvalidCrcHumidity)) =>
        /\ dev.meas_started = pre.dev.meas_started
        /\ dev.meas_first = pre.dev.meas_first

\* C6, amended: a fetch clears meas_first and (in single-shot mode)
\* meas_started as soon as its transport read has returned, whether or not
\* the CRC checks then pass; a fetch that fails before that (not started,
\* still running, failed read) leaves the session as it was.  A fetch that
\* fails with an invalid CRC has therefore cleared both flags.
C6_FlagsClearedOnceReadReturned ==
    Fetched =>
        IF ReadReturned
        THEN /\ ~dev.meas_first
             /\ pre.dev.mode = SHT3X_SINGLE_SHOT => ~dev.meas_started
             /\ dev.meas_start_time = pre.dev.meas_start_time
        ELSE dev = pre.dev

C6_Witness ==
    /\ Fetched /\ (InvalidCrcTemperature \/ InvalidCrcHumidity)
    /\ pre.dev.meas_started /\ pre.dev.meas_first
    /\ ~dev.meas_started /\ ~dev.meas_first

\* C7: when the response's temperature CRC does not match, the fetch fails
\* on the temperature CRC whatever the humidity bytes are; it fails on the
\* humidity CRC exactly when the temperature CRC matches and the humidity
\* CRC does not.
C7_TemperatureCrcCheckedFirst ==
    (Fetched /\ ReadReturned) =>
        /\ ~TemperatureCrcMatches => InvalidCrcTemperature
        /\ InvalidCrcHumidity <=> (TemperatureCrcMatches /\ ~HumidityCrcMatches)
        /\ logged = MSG_CRC_HUMIDITY => InvalidCrcHumidity

C7_Witness ==
    /\ Fetched /\ ReadReturned
    /\ ~TemperatureCrcMatches /\ ~HumidityCrcMatches
    /\ InvalidCrcTemperature

\* The error classes of a failed fetch, as its log message tells them
PreconditionMsgs == { MSG_NOT_STARTED, MSG_STILL_RUNNING }
CrcMsgs == { MSG_CRC_TEMPERATURE, MSG_CRC_HUMIDITY }
ErrorMsgs == PreconditionMsgs \cup CrcMsgs

\* The last fetch and the fetch before it (no start command between them)
\* failed in two different ways.
TwoErrorKinds ==
    /\ Fetched /\ logged \in ErrorMsgs
    /\ pre.hist.fetch # << >> /\ pre.hist.fetch[1] \in ErrorMsgs
    /\ pre.hist.fetch[1] # logged

\* C8 as stated: fetches that fail in different ways (not started, still
\* running, temperature CRC, humidity CRC) return different results.
C8_ErrorKindsDistinct ==
    TwoErrorKinds => ret[1] # pre.hist.fetch[2]

\* C8, amended: the result of a failed fetch identifies the class of the
\* error only: "not started" and "still running" both return
\* ESP_ERR_INVALID_STATE, an invalid temperature CRC and an invalid humidity
\* CRC both return ESP_ERR_INVALID_CRC, and the two classes differ from each
\* other and from success; within a class only the log message tells the
\* kinds apart.
C8_ErrorClassesDistinct ==
    /\ Fetched =>
          /\ logged \in PreconditionMsgs => ret = << ESP_ERR_INVALID_STATE >>
          /\ logged \in CrcMsgs => ret = << ESP_ERR_INVALID_CRC >>
          /\ Succeeded => logged = ""
    /\ TwoErrorKinds =>
          ( ret[1] = pre.hist.fetch[2]
              <=> ( (logged \in CrcMsgs) = (pre.hist.fetch[1] \in CrcMsgs) ) )

C8_Witness ==
    /\ TwoErrorKinds
    /\ NotStarted
    /\ pre.hist.fetch = << MSG_STILL_RUNNING, ESP_ERR_INVALID_STATE >>

\* C9: for every byte sequence of up to two bytes, crc8 returns the
\* reference CRC-8 (polynomial 0x31, initial value 0xFF, no reflection, no
\* final XOR); crc8 of 0x00 0x00 is 0x81 and crc8 of 0xBE 0xEF is 0x92.
C9_Crc8MatchesReference ==
    crc_out # << >> =>
        /\ crc_out[1] = RefCrc8(crc_data)
        /\ crc_out[1] \in Bytes
        /\ crc_data = << 0, 0 >> => crc_out[1] = 129
        /\ crc_data = << 190, 239 >> => crc_out[1] = 146

C9_Witness ==
    /\ crc_data = << 190, 239 >>
    /\ crc_out = << 146 >>

\* C10: unit_enviii_duration_get returns success and writes the duration of
\* the configured repeatability (15 for high), in every state it is called
\* in, and changes nothing of the session.
C10_DurationGetPure ==
    op = "duration_get" =>
        /\ Succeeded
        /\ out.duration =
             << CASE REPEATABILITY_MODE = SHT3X_HIGH -> 15
                  [] REPEATABILITY_MODE = SHT3X_MEDIUM -> 6
                  [] REPEATABILITY_MODE = SHT3X_LOW -> 4 >>
        /\ pre.dev.repeatability = REPEATABILITY_MODE
        /\ dev = pre.dev
        /\ hist = pre.hist
        /\ io = << >>

C10_Witness ==
    /\ op = "duration_get"
    /\ pre.dev.meas_started
    /\ pre.hist.fetch # << >>
    /\ out.duration = << 15 >>


\* Both guards of the fetch held in the state it was called in.
PreconditionsHeld ==
    /\ pre.dev.meas_started
    /\ pre.dev.meas_first =>
          pre.now - pre.dev.meas_start_time >= DurationUsAtCall

\* C11: a fetch whose preconditions pass issues exactly one transport read,
\* whose command is the two bytes of 0xE000 byte-swapped (0x00E0, command
\* length 2) and whose response length is 6 bytes.
C11_FetchCommandTwoBytes ==
    (Fetched /\ PreconditionsHeld) =>
        /\ Len(io) = 1
        /\ io[1].kind = "i2c_dev_read"
        /\ io[1].cmd = 224
        /\ io[1].out_size = 2
        /\ io[1].in_size = 6

\* C12: when sht3x_init_desc or sht3x_init fails, unit_enviii_init returns a
\* failure result to its caller: it does not return success and does not end
\* the program.
C12_InitFailureReturned ==
    (op = "init" /\ \E i \in 1 .. Len(io) : io[i].err # ESP_OK) =>
        /\ ~halted
        /\ ret # << >>
        /\ ret # << ESP_OK >>


\* The most recent start command was issued while an earlier one was pending.
Restarted == pre.hist.prior >= 0

\* C13: a start command issued in single-shot mode while a measurement is
\* pending succeeds and restarts timing: meas_started and meas_first are true
\* and meas_start_time is the time of that start; a fetch is then rejected as
\* "still running" until the duration has elapsed since the latest start,
\* also when it has elapsed since the earlier one.
C13_RestartRestartsTiming ==
    /\ (op = "measure" /\ io[1].err = ESP_OK) =>
          /\ Succeeded
          /\ dev.mode = SHT3X_SINGLE_SHOT
          /\ dev.meas_started /\ dev.meas_first
          /\ dev.meas_start_time = pre.now
    /\ (Fetched /\ Restarted /\ ~pre.hist.init_since
           /\ pre.now - pre.hist.start < DurationUsAtCall) =>
          /\ StillMeasuring
          /\ io = << >>
          /\ dev = pre.dev
    /\ (Fetched /\ Restarted /\ ~pre.hist.init_since /\ ~pre.hist.read_since
           /\ pre.now - pre.hist.start >= DurationUsAtCall) =>
          io # << >>

C13_Witness ==
    /\ Fetched /\ Restarted /\ ~pre.hist.init_since
    /\ pre.dev.mode = SHT3X_SINGLE_SHOT
    /\ pre.now - pre.hist.prior >= DurationUsAtCall
    /\ pre.now - pre.hist.start < DurationUsAtCall
    /\ StillMeasuring


\* C14: the elapsed-time check applies only while meas_first is true; in
\* periodic mode, once a fetch has read the sensor, every later fetch without
\* a new start command passes both guards, whatever the clock shows, and
\* meas_started stays true.
C14_PeriodicLaterFetchesPass ==
    /\ (Fetched /\ StillMeasuring) => pre.dev.meas_first
    /\ (Fetched /\ pre.dev.mode # SHT3X_SINGLE_SHOT
           /\ ~pre.hist.init_since /\ pre.hist.read_since) =>
          /\ ~pre.dev.meas_first
          /\ logged \notin PreconditionMsgs
          /\ io # << >>
          /\ dev.meas_started
    /\ (Fetched /\ pre.dev.mode # SHT3X_SINGLE_SHOT /\ ReadReturned) =>
          (dev.meas_started /\ ~dev.meas_first)

C14_Witness ==
    /\ Fetched /\ pre.dev.mode = SHT3X_PERIODIC_1MPS
    /\ ~pre.hist.init_since /\ pre.hist.read_since
    /\ pre.hist.fetch = << "", ESP_OK >>
    /\ ~pre.dev.meas_first
    /\ Succeeded /\ dev.meas_started


\* C15: a fetch rejected by a guard (not started, still measuring) makes no
\* transport call and leaves the session state and the outputs alone (the
\* call itself takes no time: unit_enviii_temp_humidity_get leaves now as it
\* is); the fetch after a still-measuring rejection, made once the duration is over and with no start command or init
\* in between, passes the guards and succeeds when the transport delivers a
\* response with matching CRCs.
C15_RejectedFetchNoEffect ==
    /\ (Fetched /\ (NotStarted \/ StillMeasuring)) =>
          /\ io = << >>
          /\ dev = pre.dev
          /\ out = no_out
    /\ (Fetched /\ pre.hist.fetch = << MSG_STILL_RUNNING, ESP_ERR_INVALID_STATE >>
           /\ ~pre.hist.init_since
           /\ pre.now - pre.hist.start >= DurationUsAtCall) =>
          /\ io # << >>
          /\ (ReadReturned /\ TemperatureCrcMatches /\ HumidityCrcMatches)
                => Succeeded

C15_Witness ==
    /\ Fetched
    /\ pre.hist.fetch = << MSG_STILL_RUNNING, ESP_ERR_INVALID_STATE >>
    /\ ~pre.hist.init_since
    /\ pre.now - pre.hist.start >= DurationUsAtCall
    /\ Succeeded

\* C16: when the read of a fetch fails, the fetch returns the error of the
\* read, with one transport call made, no CRC compared, no output written and
\* the session state as it was; the next fetch, with no start command or init
\* in between, passes the guards again and succeeds when the transport
\* delivers a response with matching CRCs.
C16_ReadFailureReturned ==
    /\ (Fetched /\ io # << >> /\ io[1].err # ESP_OK) =>
          /\ ret = << io[1].err >>
          /\ Len(io) = 1
          /\ logged = ""
          /\ raw = << >>
          /\ out = no_out
          /\ dev = pre.dev
    /\ (Fetched /\ pre.hist.fetch # << >> /\ pre.hist.fetch[1] = ""
           /\ pre.hist.fetch[2] \in TransportErrs /\ ~pre.hist.init_since) =>
          /\ io # << >>
          /\ (ReadReturned /\ TemperatureCrcMatches /\ HumidityCrcMatches)
                => Succeeded

C16_Witness ==
    /\ Fetched
    /\ pre.hist.fetch = << "", ESP_ERR_TIMEOUT >>
    /\ ~pre.hist.init_since
    /\ pre.dev.meas_started /\ pre.dev.meas_first
    /\ Succeeded

\* C17: unit_enviii_init, whatever the state it is called in and whatever the
\* sensor's setup calls return, leaves the session state zeroed: meas_started
\* and meas_first false, the start time 0; a fetch made after it with no start
\* command in between is rejected as not started.
C17_InitResetsSession ==
    /\ (op = "init") =>
          /\ dev = dev_zero
          /\ ~dev.meas_started /\ ~dev.meas_first /\ dev.meas_start_time = 0
    /\ (Fetched /\ pre.hist.init_since) => (NotStarted /\ io = << >>)

C17_Witness ==
    /\ op = "init" /\ ~halted
    /\ pre.dev.meas_started /\ pre.dev.meas_first
    /\ pre.now - pre.dev.meas_start_time < DurationUsAtCall
    /\ dev = dev_zero


\* C18: in every state the driver of lines 179-477 reaches through its public
\* operations, meas_started implies meas_first and single-shot mode; a fetch
\* that passes the guards was called with meas_first true and with the
\* duration over, so the clock was compared.
C18_StartedImpliesFirstSingleShot ==
    /\ dev.meas_started => (dev.meas_first /\ dev.mode = SHT3X_SINGLE_SHOT)
    /\ (Fetched /\ io # << >>) =>
          /\ pre.dev.meas_started /\ pre.dev.meas_first
          /\ pre.dev.mode = SHT3X_SINGLE_SHOT
          /\ pre.now - pre.dev.meas_start_time >= DurationUsAtCall

C18_Witness ==
    /\ Fetched /\ ReadReturned
    /\ pre.dev.meas_started /\ pre.dev.meas_first
    /\ pre.dev.mode = SHT3X_SINGLE_SHOT
    /\ ~dev.meas_started /\ ~dev.meas_first

\* C19: unit_enviii_pressure_get and unit_enviii_altitude_get return ESP_OK
\* in every state, also before unit_enviii_init, make no transport call,
\* write no output and leave the session state as it was.
C19_PressureAltitudeStubs ==
    (op \in { "pressure_get", "altitude_get" }) =>
        /\ Succeeded
        /\ io = << >>
        /\ out = no_out
        /\ dev = pre.dev
        /\ hist = pre.hist

C19_Witness ==
    /\ op \in { "pressure_get", "altitude_get" }
    /\ pre.hist = hist_zero /\ pre.dev = dev_zero
    /\ Succeeded /\ io = << >> /\ out = no_out

\* C20: the entries of SHT3X_MEAS_DURATION_US are 15000, 6000 and 4000 for
\* high, medium and low repeatability (indices 0, 1, 2), each 1000 times the
\* duration in milliseconds and below 2^16; a fetch called with meas_started
\* and meas_first true is rejected as still measuring exactly when the time
\* since meas_start_time is strictly less than the entry.
C20_DurationTableMicroseconds ==
    /\ SHT3X_MEAS_DURATION_US[SHT3X_HIGH + 1] = 15000
    /\ SHT3X_MEAS_DURATION_US[SHT3X_MEDIUM + 1] = 6000
    /\ SHT3X_MEAS_DURATION_US[SHT3X_LOW + 1] = 4000
    /\ SHT3X_MEAS_DURATION_US[SHT3X_HIGH + 1] = 1000 * SHT3X_MEAS_DURATION_REP_HIGH
    /\ SHT3X_MEAS_DURATION_US[SHT3X_MEDIUM + 1] = 1000 * SHT3X_MEAS_DURATION_REP_MEDIUM
    /\ SHT3X_MEAS_DURATION_US[SHT3X_LOW + 1] = 1000 * SHT3X_MEAS_DURATION_REP_LOW
    /\ \A i \in 1 .. 3 : SHT3X_MEAS_DURATION_US[i] < 65536
    /\ (Fetched /\ pre.dev.meas_started /\ pre.dev.meas_first) =>
          (StillMeasuring <=>
              pre.now - pre.dev.meas_start_time
                  < SHT3X_MEAS_DURATION_US[pre.dev.repeatability + 1])

C20_Witness ==
    /\ Fetched /\ pre.dev.meas_started /\ pre.dev.meas_first
    /\ pre.now - pre.dev.meas_start_time
          = SHT3X_MEAS_DURATION_US[pre.dev.repeatability + 1]
    /\ SHT3X_MEAS_DURATION_US[pre.dev.repeatability + 1] = 15000
    /\ ~StillMeasuring /\ io # << >>

====
